---- MODULE Spec2Model ----
(***************************************************************************)
(* Model of src/ipython_mcp/server.py: the session state (kernel_client,   *)
(* kernel_process), the seven tool operations, and the reply / broadcast   *)
(* channels of the connected kernel.                                       *)
(*                                                                         *)
(* Strings are sequences of tokens (a token is one character or one        *)
(* indivisible word), so trimming, ANSI stripping and joining are computed *)
(* as the code computes them.  Text emitted by the kernel on behalf of     *)
(* request p is written with the letter Ch(p), which makes the origin of   *)
(* every piece of a report visible in the report.                          *)
(*                                                                         *)
(* Every tool operation is one action, except execute_code: its drain loop *)
(* blocks on the broadcast channel once per iteration, so the operation is *)
(* execute_code (submit + reply wait) followed by one Drain step per read; *)
(* no other operation runs while pc = "drain" (calls are serialized).      *)
(*                                                                         *)
(* Spec is the session under all seven operations, with a kernel that      *)
(* broadcasts nothing; ExecSpec is an open connection under execute_code   *)
(* with a kernel (and other clients of it) that broadcast; LiveSpec adds   *)
(* to ExecSpec that the loop of execute_code keeps taking its next step;    *)
(* SeqSpec is ExecSpec with one more call on the connection.               *)
(***************************************************************************)
EXTENDS Integers, Sequences, FiniteSets, TLC

\* ---------------------------------------------------------------- bounds
MaxHandles == 2   \* client objects that exist at one time
MaxProcs   == 1   \* worker processes that exist at one time
MaxCalls   == 1   \* execute_code requests submitted on one connection
MaxQueue   == 1   \* messages waiting on the broadcast channel
MaxParts   == 2   \* messages the kernel emits for one request while it is drained

None == 0         \* Python's None in kernel_client / kernel_process

VARIABLES
    IS_WINDOWS,      \* platform flag, fixed at import
    kernel_client,   \* None or the id of the stored client object
    kernel_process,  \* None or the id of the stored Popen object
    openHandles,     \* ids of client objects whose channels are open
    alive,           \* ids of spawned processes that are running
    msgs,            \* number of execute requests submitted on this connection
    shell,           \* reply channel of the current client: queue of replies
    pending,         \* requests whose reply the kernel has not sent yet
    iopub,           \* broadcast channel of the current client: queue of messages
    pc,              \* "idle", or "drain" inside execute_code's loop
    msg_id,          \* execute_code local: id of the submitted request
    reply,           \* execute_code local: the message read from the reply channel
    output_parts,    \* execute_code local: collected fragments
    seen,            \* history: the matching messages the loop has read, in order
    skipped,         \* history: the loop has discarded a message of another request
    lastOp,          \* the call that produced this state
    ret,             \* the string it returned (kind + body)
    trace            \* the external effects it performed, in order

vars == <<IS_WINDOWS, kernel_client, kernel_process, openHandles, alive, msgs, shell, pending, iopub, pc, msg_id, reply,
          output_parts, seen, skipped, lastOp, ret, trace>>

session == <<kernel_client, kernel_process, openHandles, alive>>
channels == <<msgs, shell, pending, iopub>>
locals == <<msg_id, reply, output_parts, seen, skipped>>

\* ---------------------------------------------------------------- strings
Whitespace == {" ", "\n"}
AnsiCodes == {"ESC[0;31m", "ESC[0m", "ESC[1;32m", "ESC[0;32m"}
OtherAnsi == "ESC[0;34m"

\* the letter the kernel writes for request p (0: a request that is not one
\* of this connection's counted calls)
Ch(p) == IF p = 0 THEN "z" ELSE <<"a", "b", "c", "d", "e", "f">>[p]

RECURSIVE LStrip(_)
LStrip(s) == IF s # <<>> /\ Head(s) \in Whitespace THEN LStrip(Tail(s)) ELSE s

RECURSIVE RStrip(_)
RStrip(s) == IF s # <<>> /\ s[Len(s)] \in Whitespace
                THEN RStrip(SubSeq(s, 1, Len(s) - 1)) ELSE s

Strip(s) == RStrip(LStrip(s))

RECURSIVE Join(_, _)
Join(sep, parts) ==
    IF parts = <<>> THEN <<>>
    ELSE IF Len(parts) = 1 THEN parts[1]
    ELSE parts[1] \o sep \o Join(sep, Tail(parts))

IsAnsi(c) == c \in AnsiCodes
CleanLine(line) == SelectSeq(line, LAMBDA c : ~IsAnsi(c))
CleanTraceback(tb) == [i \in 1..Len(tb) |-> CleanLine(tb[i])]

Report(kind, body) == [kind |-> kind, body |-> body]
Eff(name, id, open) == [eff |-> name, id |-> id, open |-> Cardinality(open)]
Call(op, file, dry) == [op |-> op, file |-> file, dry_run |-> dry]

\* the bodies of the "try: ... except Exception:" statements, as line ranges
TryBlocks ==
    { <<79, 151>>,                                        \* start_kernel
      <<172, 203>>, <<194, 194>>,                         \* connect_to_kernel
      <<226, 290>>, <<237, 275>>,                         \* execute_code
      <<310, 312>>,                                       \* kernel_status
      <<328, 332>>,                                       \* disconnect_kernel
      <<352, 396>>, <<354, 356>>, <<364, 388>>,           \* shutdown_kernel
      <<421, 437>>, <<423, 424>>, <<432, 433>>  }         \* interrupt_kernel

caught_never(line) == FALSE

\* is an exception raised by the statement at this line caught by a handler
\* of the operation ?
caught(line) == \E b \in TryBlocks : b[1] <= line /\ line <= b[2]

\* what the caller gets when the statement at this line raises: the report
\* of the handler that catches it, or the exception itself
OnFailure(line, report) ==
    IF caught(line) THEN report ELSE Report("Unhandled", <<>>)


\* ---------------------------------------------------------------- session state
NoReply == [parent |-> 0, status |-> "none", ename |-> "", evalue |-> ""]

Init ==
    /\ IS_WINDOWS \in BOOLEAN
    /\ kernel_client = None
    /\ kernel_process = None
    /\ openHandles = {}
    /\ alive = {}
    /\ msgs = 0
    /\ shell = <<>>
    /\ pending = {}
    /\ iopub = <<>>
    /\ pc = "idle"
    /\ msg_id = 0
    /\ reply = NoReply
    /\ output_parts = <<>>
    /\ seen = <<>>
    /\ skipped = FALSE
    /\ lastOp = Call("init", "", FALSE)
    /\ ret = Report("", <<>>)
    /\ trace = <<>>

\* the locals of execute_code do not outlive the call
DropLocals ==
    /\ msg_id' = 0
    /\ reply' = NoReply
    /\ output_parts' = <<>>
    /\ seen' = <<>>
    /\ skipped' = FALSE

\* a client object's sockets and session are its own: new or closed channels
\* hold nothing, and every earlier request is another session's request (id 0)
SetChannels(reset) ==
    IF reset THEN msgs' = 0 /\ shell' = <<>> /\ pending' = {} /\ iopub' = <<>>
    ELSE UNCHANGED channels

\* a new object is named by the least id no existing object has
Fresh(ids, used) == CHOOSE x \in ids \ used : \A y \in ids \ used : x <= y

\* resolve_connection_file: explicit parameter, else environment, else default
resolve_connection_file(connection_file, env_connection) ==
    IF connection_file # "" THEN connection_file
    ELSE IF env_connection # "" THEN env_connection
    ELSE "default_connection.json"

ExplicitPaths == {"", "a.json"}
EnvPaths == {"", "e.json"}

\* ---------------------------------------------------------------- connect
ConnectOutcomes == {"notfound", "malformed", "stop_fails", "load_fails",
                    "start_fails", "not_ready", "keys_missing", "ok"}

Outcome(client, open, reset, r, t) ==
    [client |-> client, open |-> open, reset |-> reset, ret |-> r, trace |-> t]

close_existing_skipped(client, open) == open

\* "Close existing client if any": the channels open after lines 184-185
close_existing(client, open) == IF client # None THEN open \ {client} ELSE open

\* the statement at which connect_to_kernel fails, for each failing outcome
FailLine(outcome) ==
    IF outcome = "malformed" THEN 181
    ELSE IF outcome = "stop_fails" THEN 185
    ELSE IF outcome = "load_fails" THEN 189
    ELSE IF outcome = "start_fails" THEN 190
    ELSE IF outcome = "not_ready" THEN 194
    ELSE 203

\* the string connect_to_kernel returns (lines 177, 196, 203, 206); the
\* failure reports quote the exception
connect_report(outcome) ==
    IF outcome = "notfound" THEN Report("NotFound", <<>>)
    ELSE IF outcome = "ok" THEN Report("Connected", <<>>)
    ELSE IF outcome = "not_ready"
    THEN OnFailure(FailLine(outcome), Report("ConnectError", <<outcome>>))
    ELSE OnFailure(FailLine(outcome), Report("ConnectFailed", <<outcome>>))

fails_before_close_if_absent(outcome) == outcome = "notfound"

\* lines 176-181 come before the close of lines 184-185: the outcomes that
\* end the call before the stored client is touched
fails_before_close(outcome) == outcome \in {"notfound", "malformed"}

\* the body of connect_to_kernel, from the session (client, open)
connect_body(client, open, outcome) ==
    IF fails_before_close(outcome)
    THEN Outcome(client, open, FALSE, connect_report(outcome), <<>>)
    ELSE IF client # None /\ outcome = "stop_fails"
    THEN Outcome(client, open, FALSE, connect_report(outcome),
                 <<Eff("stop_channels_failed", client, open)>>)
    ELSE
      LET closed == close_existing(client, open)
          t0 == IF client # None
                  THEN <<Eff("stop_channels", client, closed)>> ELSE <<>>
          h == Fresh(1..MaxHandles, closed \cup {client})
          opened == closed \cup {h}
          t1 == t0 \o <<Eff("start_channels", h, opened)>>
      IN  IF outcome = "load_fails"
          THEN Outcome(h, closed, TRUE, connect_report(outcome), t0)
          ELSE Outcome(h, opened, TRUE, connect_report(outcome), t1)

\* outcomes the session allows: stop_channels is only called on a stored
\* client, and a client object is only created below the bound
ConnectAllowed(client, open, outcome) ==
    /\ outcome = "stop_fails" => client # None
    /\ outcome \notin {"notfound", "malformed", "stop_fails"}
         => (1..MaxHandles) \ (close_existing(client, open) \cup {client}) # {}

connect_to_kernel ==
    /\ pc = "idle"
    /\ \E outcome \in ConnectOutcomes :
        /\ ConnectAllowed(kernel_client, openHandles, outcome)
        /\ LET c == connect_body(kernel_client, openHandles, outcome)
           IN  /\ kernel_client' = c.client
               /\ openHandles' = c.open
               /\ SetChannels(c.reset)
               /\ ret' = c.ret
               /\ trace' = c.trace
    /\ lastOp' = Call("connect_to_kernel", "", FALSE)
    /\ DropLocals
    /\ UNCHANGED <<IS_WINDOWS, kernel_process, alive, pc>>

\* ---------------------------------------------------------------- status, disconnect
kernel_status ==
    /\ pc = "idle"
    /\ \E info_fails \in BOOLEAN :
        ret' = IF kernel_client = None THEN Report("NotConnected", <<>>)
               ELSE IF info_fails
               THEN OnFailure(311, Report("ConnectedNoDetails", <<>>))
               ELSE Report("Connected", <<>>)
    /\ trace' = <<>>
    /\ lastOp' = Call("kernel_status", "", FALSE)
    /\ DropLocals
    /\ UNCHANGED <<IS_WINDOWS, session, channels, pc>>

\* the body of disconnect_kernel
disconnect_body(client, open, stop_fails) ==
    IF client = None
    THEN Outcome(client, open, FALSE, Report("Disconnected", <<>>), <<>>)
    ELSE IF stop_fails
    THEN Outcome(client, open, FALSE,
                 OnFailure(329, Report("DisconnectError", <<>>)),
                 <<Eff("stop_channels_failed", client, open)>>)
    ELSE Outcome(None, open \ {client}, TRUE, Report("Disconnected", <<>>),
                 <<Eff("stop_channels", client, open \ {client})>>)

disconnect_kernel ==
    /\ pc = "idle"
    /\ \E stop_fails \in BOOLEAN :
        LET d == disconnect_body(kernel_client, openHandles, stop_fails)
        IN  /\ kernel_client' = d.client
            /\ openHandles' = d.open
            /\ SetChannels(d.reset)
            /\ ret' = d.ret
            /\ trace' = d.trace
    /\ lastOp' = Call("disconnect_kernel", "", FALSE)
    /\ DropLocals
    /\ UNCHANGED <<IS_WINDOWS, kernel_process, alive, pc>>


\* ---------------------------------------------------------------- start
\* the command line start_kernel builds for a descriptor path
command_line(windows, path) ==
    IF windows
    THEN <<"python", "-m", "IPython", "kernel",
           "--ConnectionFileMixin.connection_file=", path,
           "--InteractiveShellApp.extensions=['autoreload']",
           "--InteractiveShellApp.exec_lines=['%autoreload 2']">>
    ELSE <<"ipython", "kernel",
           "--ConnectionFileMixin.connection_file=", path,
           "--InteractiveShellApp.extensions=['autoreload']",
           "--InteractiveShellApp.exec_lines=['%autoreload 2']">>

StderrTexts == {<<>>, <<"Address already in use">>, <<"ZMQError">>}

\* stderr is piped on Unix only; communicate() yields None on Windows
stderr_text(windows, stderr) == IF windows THEN <<>> ELSE stderr

\* line 136
already_running(text) ==
    \E i \in 1..Len(text) : text[i] \in {"Address already in use", "ZMQError"}

spawns_always(dry_run) == TRUE

\* lines 97-98, 116-117: does a call with this dry_run flag go on to Popen ?
spawns(dry_run) == ~dry_run

\* lines 89-98: effects before the dry_run test
before_popen(windows, open) ==
    IF windows THEN <<Eff("mkdtemp", 0, open)>> ELSE <<>>

\* lines 83-84: the descriptor file is absent
start_not_found ==
    /\ ret' = Report("NotFound", <<>>)
    /\ trace' = <<>>
    /\ UNCHANGED <<session, channels>>

\* lines 97-98, 116-117: dry run
start_dry_run(path) ==
    /\ ret' = Report("WouldRun", command_line(IS_WINDOWS, path))
    /\ trace' = before_popen(IS_WINDOWS, openHandles)
    /\ UNCHANGED <<session, channels>>

\* lines 103-106, 119-124 raise: caught at 153
start_popen_fails ==
    /\ ret' = OnFailure(IF IS_WINDOWS THEN 103 ELSE 119,
                        Report("StartFailed", <<>>))
    /\ trace' = before_popen(IS_WINDOWS, openHandles)
    /\ UNCHANGED <<session, channels>>

\* lines 130-131: what poll() found, with what the worker had written to its
\* stderr (which the operation reads through stderr_text)
worker_exit(exited, stderr, p, open) ==
    IF ~exited THEN <<>>
    ELSE IF already_running(stderr) THEN <<Eff("exited_address_in_use", p, open)>>
    ELSE <<Eff("exited", p, open)>>

\* lines 103-151: the process is spawned; it has or has not exited after 1s
start_spawned(exited, stderr, outcome) ==
    /\ (1..MaxProcs) \ (alive \cup {kernel_process}) # {}
    /\ LET p == Fresh(1..MaxProcs, alive \cup {kernel_process})
           t == before_popen(IS_WINDOWS, openHandles)
                \o <<Eff("spawn", p, openHandles)>>
                \o worker_exit(exited, stderr, p, openHandles)
           c == connect_body(kernel_client, openHandles, outcome)
           connects == ~exited \/ already_running(stderr_text(IS_WINDOWS, stderr))
       IN  /\ kernel_process' = p
           /\ alive' = IF exited THEN alive ELSE alive \cup {p}
           /\ IF connects
              THEN /\ ConnectAllowed(kernel_client, openHandles, outcome)
                   /\ kernel_client' = c.client
                   /\ openHandles' = c.open
                   /\ SetChannels(c.reset)
                   /\ trace' = t \o c.trace
                   /\ ret' = Report(IF exited THEN "AlreadyRunning" ELSE "Started",
                                    <<c.ret.kind>>)
              ELSE /\ outcome = "ok"   \* connect_to_kernel is not called
                   /\ ret' = Report("LaunchFailure", <<>>)
                   /\ trace' = t
                   /\ UNCHANGED <<kernel_client, openHandles, channels>>

start_kernel ==
    /\ pc = "idle"
    \* the reports are modelled by their kind, except the dry run's, which is
    \* the command line: only there does the descriptor path make a difference
    /\ \E dry_run \in BOOLEAN,
          connection_file \in ExplicitPaths, env \in EnvPaths :
        LET path == resolve_connection_file(connection_file, env)
        IN  /\ lastOp' = Call("start_kernel", path, dry_run)
            /\ ~dry_run => (connection_file = "" /\ env = "")
            /\ \/ start_not_found
               \/ ~spawns(dry_run) /\ start_dry_run(path)
               \/ /\ spawns(dry_run)
                  /\ \/ start_popen_fails
                     \/ \E exited \in BOOLEAN, stderr \in StderrTexts,
                           outcome \in ConnectOutcomes \ {"notfound"} :
                          \* stderr is read only from a process that exited
                          /\ ~exited => stderr = <<>>
                          /\ start_spawned(exited, stderr, outcome)
    /\ DropLocals
    /\ UNCHANGED <<IS_WINDOWS, pc>>

\* a running worker process exits on its own (crash, or a shutdown request served)
ProcessExits ==
    /\ \E p \in alive : alive' = alive \ {p}
    /\ lastOp' = Call("process_exits", "", FALSE)
    /\ UNCHANGED <<IS_WINDOWS, kernel_client, kernel_process, openHandles,
                   channels, pc, locals, ret, trace>>


\* ---------------------------------------------------------------- shutdown
process_alive_unpolled(process, running) == process # None

\* "kernel_process and kernel_process.poll() is None"
process_alive(process, running) == process # None /\ process \in running

TermOutcomes == {"terminate_raises", "exits", "needs_kill", "kill_raises"}

\* effects and result of the process-termination step (lines 363-392); line
\* is the statement that raised (Unix branch; 366 and 373 on Windows lie in
\* the same try statement)
terminate_body(process, running, open, term) ==
    IF term = "terminate_raises"
    THEN [alive |-> running, ok |-> FALSE, line |-> 380,
          trace |-> <<Eff("terminate_failed", process, open)>>]
    ELSE IF term = "exits"
    THEN [alive |-> running \ {process}, ok |-> TRUE, line |-> 0,
          trace |-> <<Eff("terminate", process, open), Eff("wait", process, open)>>]
    ELSE IF term = "needs_kill"
    THEN [alive |-> running \ {process}, ok |-> TRUE, line |-> 0,
          trace |-> <<Eff("terminate", process, open),
                      Eff("wait_timeout", process, open),
                      Eff("kill", process, open), Eff("wait", process, open)>>]
    ELSE [alive |-> running, ok |-> FALSE, line |-> 384,
          trace |-> <<Eff("terminate", process, open),
                      Eff("wait_timeout", process, open),
                      Eff("kill_failed", process, open)>>]

shutdown_disconnects_on_success(proto_fails, tracked_alive, term_ok) ==
    ~(proto_fails /\ tracked_alive /\ ~term_ok)

\* does shutdown_kernel run disconnect_kernel on this path ? (355, 376, 387, 391, 395)
shutdown_disconnects(proto_fails, tracked_alive, term_ok) == TRUE

shutdown_kernel ==
    /\ pc = "idle"
    /\ \E proto_fails \in BOOLEAN, term \in TermOutcomes, stop_fails \in BOOLEAN :
        LET h == kernel_client
            tracked == process_alive(kernel_process, alive)
            k == terminate_body(kernel_process, alive, openHandles, term)
            runs == shutdown_disconnects(proto_fails, tracked, k.ok)
            d == IF runs
                 THEN disconnect_body(kernel_client, openHandles, stop_fails)
                 ELSE Outcome(kernel_client, openHandles, FALSE,
                              Report("", <<>>), <<>>)
        IN  IF h = None
            THEN /\ ret' = Report("NotConnected", <<>>)
                 /\ trace' = <<>>
                 /\ UNCHANGED <<session, channels>>
            ELSE /\ kernel_client' = d.client
                 /\ openHandles' = d.open
                 /\ SetChannels(d.reset)
                 /\ UNCHANGED kernel_process
                 /\ IF ~proto_fails
                    THEN /\ ret' = Report("ShutdownGraceful", <<>>)
                         /\ trace' = <<Eff("shutdown_request", h, openHandles)>>
                                     \o d.trace
                         /\ alive' = alive
                    ELSE IF tracked
                    THEN /\ ret' = OnFailure(354,
                                     IF k.ok
                                     THEN Report("ShutdownForceful",
                                                 <<IF IS_WINDOWS THEN "Windows"
                                                   ELSE "Unix">>)
                                     ELSE OnFailure(k.line,
                                            Report("TerminationFailedClosed", <<>>)))
                         /\ trace' = <<Eff("shutdown_request_failed", h, openHandles)>>
                                     \o k.trace \o d.trace
                         /\ alive' = k.alive
                    ELSE /\ ret' = OnFailure(354, Report("ConnectionsClosed", <<>>))
                         /\ trace' = <<Eff("shutdown_request_failed", h, openHandles)>>
                                     \o d.trace
                         /\ alive' = alive
    /\ lastOp' = Call("shutdown_kernel", "", FALSE)
    /\ DropLocals
    /\ UNCHANGED <<IS_WINDOWS, pc>>

\* ---------------------------------------------------------------- interrupt
interrupt_unsupported_never(windows) == FALSE

\* the platform test of line 417
interrupt_unsupported(windows) == windows

\* lines 422-427: the protocol interrupt, which raised or did not
interrupt_request(proto_fails, h, open) ==
    Eff(IF proto_fails THEN "interrupt_request_failed" ELSE "interrupt_request",
        h, open)

signals_tracked(proto_fails, tracked_alive) == tracked_alive

\* lines 424-430: is send_signal reached ?  Only past the handler of the
\* protocol interrupt, and the test of the tracked process
signals(proto_fails, tracked_alive) == proto_fails /\ tracked_alive

interrupt_kernel ==
    /\ pc = "idle"
    /\ \E proto_fails \in BOOLEAN, signal_fails \in BOOLEAN :
        LET h == kernel_client
            p == kernel_process
        IN  IF h = None
            THEN ret' = Report("NotConnected", <<>>) /\ trace' = <<>>
            ELSE IF interrupt_unsupported(IS_WINDOWS)
            THEN ret' = Report("InterruptUnsupported", <<>>) /\ trace' = <<>>
            ELSE IF ~signals(proto_fails, process_alive(p, alive)) /\ ~proto_fails
            THEN /\ ret' = Report("InterruptSent", <<>>)
                 /\ trace' = <<Eff("interrupt_request", h, openHandles)>>
            ELSE IF signals(proto_fails, process_alive(p, alive))
            THEN IF signal_fails
                 THEN /\ ret' = OnFailure(423, OnFailure(432,
                                   Report("OSInterruptFailed", <<>>)))
                      /\ trace' = <<interrupt_request(proto_fails, h, openHandles),
                                    Eff("SIGINT_failed", p, openHandles)>>
                 ELSE /\ ret' = OnFailure(423, Report("SignalSent", <<>>))
                      /\ trace' = <<interrupt_request(proto_fails, h, openHandles),
                                    Eff("SIGINT", p, openHandles)>>
            ELSE /\ ret' = OnFailure(423, Report("NoInterruptMethod", <<>>))
                 /\ trace' = <<Eff("interrupt_request_failed", h, openHandles)>>
    /\ lastOp' = Call("interrupt_kernel", "", FALSE)
    /\ DropLocals
    /\ UNCHANGED <<IS_WINDOWS, session, channels, pc>>


\* ---------------------------------------------------------------- kernel messages
Reply(p, status) ==
    [parent |-> p, status |-> status,
     ename |-> IF status = "error" THEN "Err" ELSE "",
     evalue |-> IF status = "error" THEN Ch(p) ELSE ""]

Msg(p, type, text, tb, state) ==
    [parent |-> p, msg_type |-> type, text |-> text, ename |-> "Err",
     evalue |-> Ch(p), traceback |-> tb, execution_state |-> state]

\* what the kernel may broadcast on behalf of request p
KernelMsgs(p) ==
    { Msg(p, "stream", t, <<>>, "") : t \in {<<" ", "\n">>, <<" ", Ch(p), "\n">>} }
    \cup { Msg(p, "execute_result", t, <<>>, "") : t \in {<<>>, <<Ch(p), "=">>} }
    \cup { Msg(p, "error", <<>>, tb, "") :
        tb \in {<< <<"ESC[0;31m", Ch(p), "ESC[0m">>, <<OtherAnsi, Ch(p)>> >>} }
    \cup { Msg(p, "status", <<>>, <<>>, st) : st \in {"idle", "busy"} }

\* ---------------------------------------------------------------- execute_code
matches_any(m, id) == TRUE

\* line 240: is the message one of our execution ?
matches(m, id) == m.parent = id

stream_fragment_unchecked(m) == <<Strip(m.text)>>

\* lines 246-249
stream_fragment(m) ==
    LET stream_text == Strip(m.text)
    IN  IF stream_text # <<>> THEN <<stream_text>> ELSE <<>>

\* lines 251-254
result_fragment(m) == IF m.text # <<>> THEN <<m.text>> ELSE <<>>

\* lines 256-271
error_fragment(m) ==
    LET error_msg == <<m.ename, ": ", m.evalue>>
        full == IF m.traceback # <<>>
                THEN error_msg \o <<"\n">>
                     \o Join(<<"\n">>, CleanTraceback(m.traceback))
                ELSE error_msg
    IN  << <<"[x] ">> \o full >>

\* the fragments a matching message appends to output_parts
fragments(m) ==
    IF m.msg_type = "stream" THEN stream_fragment(m)
    ELSE IF m.msg_type = "execute_result" THEN result_fragment(m)
    ELSE IF m.msg_type = "error" THEN error_fragment(m)
    ELSE <<>>

is_idle_any_status(m) == m.msg_type = "status"

\* lines 273-275
is_idle(m) == m.msg_type = "status" /\ m.execution_state = "idle"

error_summary(r) == <<"[x] ", r.ename, ": ", r.evalue>>
NoOutputText == <<"[ok] Code executed successfully (no output)">>

final_report_parts_first(r, parts) ==
    IF parts # <<>> THEN Report("Output", Join(<<"\n">>, parts))
    ELSE IF r.status = "error" THEN Report("ExecError", error_summary(r))
    ELSE Report("NoOutput", NoOutputText)

\* lines 281-290
final_report(r, parts) ==
    IF r.status = "error" THEN Report("ExecError", error_summary(r))
    ELSE IF parts = <<>> THEN Report("NoOutput", NoOutputText)
    ELSE Report("Output", Join(<<"\n">>, parts))

not_connected_never(client) == FALSE

\* line 222: "if not kernel_client"
not_connected(client) == client = None

\* lines 220-233: submit the request and wait for the reply, on a connection
\* that has carried fewer than max_calls requests
submit_and_wait(max_calls) ==
    /\ pc = "idle"
    /\ lastOp' = Call("execute_code", "", FALSE)
    /\ UNCHANGED <<IS_WINDOWS, session, iopub>>
    /\ \E send_fails \in BOOLEAN, wait \in {"timeout", "ok", "error"} :
        IF not_connected(kernel_client) \/ send_fails
        THEN /\ ret' = IF not_connected(kernel_client)
                       THEN Report("NotConnected", <<>>)
                       ELSE OnFailure(227, Report("ExecutionFailure", <<>>))
             /\ trace' = <<>>
             /\ DropLocals
             /\ UNCHANGED <<msgs, shell, pending, pc>>
        ELSE
          LET k == msgs + 1
          IN  /\ msgs < max_calls
              /\ msgs' = k
              /\ trace' = <<Eff("execute_request", k, openHandles)>>
              /\ IF shell = <<>> /\ wait = "timeout"
                 THEN /\ ret' = OnFailure(230, Report("ExecutionFailure", <<>>))
                      /\ pending' = pending \cup {k}
                      /\ DropLocals
                      /\ UNCHANGED <<shell, pc>>
                 ELSE /\ reply' = IF shell # <<>> THEN Head(shell) ELSE Reply(k, wait)
                      /\ shell' = IF shell # <<>> THEN Tail(shell) ELSE shell
                      /\ pending' = IF shell # <<>> THEN pending \cup {k} ELSE pending
                      /\ msg_id' = k
                      /\ output_parts' = <<>>
                      /\ seen' = <<>>
                      /\ skipped' = FALSE
                      /\ ret' = Report("", <<>>)
                      /\ pc' = "drain"

execute_code == submit_and_wait(MaxCalls)

\* lines 235-290: one read of the broadcast channel, and the return after the last
Drain ==
    /\ pc = "drain"
    /\ lastOp' = Call("execute_code", "", FALSE)
    /\ UNCHANGED <<IS_WINDOWS, session, msgs, shell, pending, msg_id, reply, trace>>
    /\ \E read_fails \in BOOLEAN :
        IF iopub = <<>> \/ read_fails
        THEN \* timeout, or another error of the read: break
             /\ pc' = "idle"
             /\ ret' = OnFailure(237, final_report(reply, output_parts))
             /\ UNCHANGED <<iopub, output_parts, seen, skipped>>
        ELSE
          LET msg == Head(iopub)
              parts == output_parts \o fragments(msg)
          IN  /\ iopub' = Tail(iopub)
              /\ IF ~matches(msg, msg_id)
                 THEN /\ skipped' = TRUE
                      /\ UNCHANGED <<output_parts, seen, pc, ret>>
                 ELSE /\ seen' = Append(seen, msg)
                      /\ output_parts' = parts
                      /\ skipped' = skipped
                      /\ IF is_idle(msg)
                         THEN pc' = "idle" /\ ret' = final_report(reply, parts)
                         ELSE UNCHANGED <<pc, ret>>

\* ---------------------------------------------------------------- the kernel side
OwnQueued == Cardinality({i \in 1..Len(iopub) : iopub[i].parent = msg_id})

\* a broadcast message reaches the client's channel.  A message that
\* arrives between two calls waits in the channel and is read by the next
\* loop exactly as one that arrives when that loop starts, so arrivals are
\* taken while a loop runs.  The loop tells the messages of its own request
\* from all others and nothing more, so the others (another client's
\* requests, earlier requests of this client) arrive under the one id 0.
Arrive ==
    /\ pc = "drain"
    /\ Len(iopub) < MaxQueue
    /\ \E p \in {0, msg_id} :
        /\ p = msg_id => Len(seen) + OwnQueued < MaxParts
        /\ \E m \in KernelMsgs(p) : iopub' = Append(iopub, m)
    /\ UNCHANGED <<IS_WINDOWS, session, msgs, shell, pending, pc, locals,
                   lastOp, ret, trace>>

\* the kernel answers a request whose reply wait has already ended
ReplyArrives ==
    /\ \E k \in pending, status \in {"ok", "error"} :
        /\ shell' = Append(shell, Reply(k, status))
        /\ pending' = pending \ {k}
    /\ UNCHANGED <<IS_WINDOWS, session, msgs, iopub, pc, locals, lastOp, ret, trace>>

\* ---------------------------------------------------------------- specification
Next ==
    \/ start_kernel
    \/ connect_to_kernel
    \/ execute_code
    \/ Drain
    \/ kernel_status
    \/ interrupt_kernel
    \/ disconnect_kernel
    \/ shutdown_kernel
    \/ ProcessExits
    \/ ReplyArrives

Spec == Init /\ [][Next]_vars

\* the session after a successful connect_to_kernel (execute_code does not
\* read the platform flag)
ExecInit ==
    /\ IS_WINDOWS = FALSE
    /\ kernel_client = 1
    /\ kernel_process = None
    /\ openHandles = {1}
    /\ alive = {}
    /\ msgs = 0
    /\ shell = <<>>
    /\ pending = {}
    /\ iopub = <<>>
    /\ pc = "idle"
    /\ msg_id = 0
    /\ reply = NoReply
    /\ output_parts = <<>>
    /\ seen = <<>>
    /\ skipped = FALSE
    /\ lastOp = Call("connect_to_kernel", "", FALSE)
    /\ ret = Report("Connected", <<>>)
    /\ trace = <<Eff("start_channels", 1, {1})>>

ExecNext ==
    \/ execute_code
    \/ Drain
    \/ Arrive
    \/ ReplyArrives

ExecSpec == ExecInit /\ [][ExecNext]_vars

\* the drain loop keeps running: a read returns within its timeout
LiveSpec == ExecSpec /\ WF_vars(Drain)

\* the open connection, carrying one call more: a call after the calls of
\* ExecSpec, some of which gave up waiting for their reply
execute_code_again == submit_and_wait(MaxCalls + 1)

SeqNext ==
    \/ execute_code_again
    \/ Drain
    \/ Arrive
    \/ ReplyArrives

SeqSpec == ExecInit /\ [][SeqNext]_vars


\* ---------------------------------------------------------------- properties of execute_code
\* execute_code has returned a report built at lines 281-290
Returned ==
    /\ pc = "idle"
    /\ lastOp.op = "execute_code"
    /\ ret.kind \in {"Output", "NoOutput", "ExecError"}

\* the letters of text the kernel wrote for a request other than msg_id
ForeignLetters == {Ch(p) : p \in (0..MaxCalls) \ {msg_id}}

NoForeignLetter(text) == \A i \in 1..Len(text) : text[i] \notin ForeignLetters

\* C1: no fragment collected by the drain loop, and no report made of the
\* collected fragments, holds text of a broadcast message whose parent id
\* is not the id of the request this call submitted.
C1_NoForeignFragment ==
    /\ \A i \in 1..Len(output_parts) : NoForeignLetter(output_parts[i])
    /\ (Returned /\ ret.kind # "ExecError") => NoForeignLetter(ret.body)

\* a call that discarded a message of another request returned collected output
C1_Witness == Returned /\ skipped /\ ret.kind = "Output"

\* C6: when the reply read by the call has status error, the report is
\* exactly the reply's error summary, whatever was collected.
C6_ReplyErrorIsAuthoritative ==
    (Returned /\ reply.status = "error")
        => ret.body = <<"[x] ", reply.ename, ": ", reply.evalue>>

\* the reply was an error and fragments had been collected
C6_Witness == Returned /\ reply.status = "error" /\ output_parts # <<>>

\* C7: every execute_code call that entered its drain loop returns.
C7_DrainTerminates == (pc = "drain") ~> (pc = "idle")

\* a matching message that yields a fragment in the sense of the claim
YieldsFragment(m) ==
    \/ m.msg_type = "stream" /\ \E i \in 1..Len(m.text) : m.text[i] \notin Whitespace
    \/ m.msg_type = "execute_result" /\ m.text # <<>>
    \/ m.msg_type = "error"

\* C8: the report is the "no output" report exactly when the reply is not
\* an error and no matching message read by the loop yielded a fragment;
\* the report is never the empty string.
C8_NoOutputReport ==
    Returned =>
        /\ (ret.body = NoOutputText)
             <=> (reply.status # "error"
                  /\ \A i \in 1..Len(seen) : ~YieldsFragment(seen[i]))
        /\ ret.body # <<>>

\* the loop read a whitespace-only stream message and "no output" was returned
C8_Witness ==
    /\ Returned
    /\ ret.kind = "NoOutput"
    /\ \E i \in 1..Len(seen) : seen[i].msg_type = "stream"


\* ---------------------------------------------------------------- properties of the session
Has(t, effs) == \E i \in 1..Len(t) : t[i].eff \in effs
Count(t, effs) == Cardinality({i \in 1..Len(t) : t[i].eff \in effs})

\* this step is a step of the named operation: lastOp names it, and the
\* step is not the kernel's (a reply arriving leaves lastOp as it was)
OpStep(op) == lastOp'.op = op /\ ~ReplyArrives

\* C2: a connect_to_kernel whose readiness wait failed leaves the
\* connection slot empty.
C2_ConnectErrorLeavesSlotEmpty ==
    (lastOp.op = "connect_to_kernel" /\ ret.kind = "ConnectError")
        => kernel_client = None

\* C3: at most one client object has open channels, in every state and
\* after every single effect of an operation (the prior client's channels
\* are closed before the new client's channels are opened).
C3_AtMostOneOpenHandle ==
    /\ Cardinality(openHandles) <= 1
    /\ \A i \in 1..Len(trace) : trace[i].open <= 1

\* connect_to_kernel replaced an open connection: it closed one client and
\* then opened another
C3_Witness ==
    /\ lastOp.op = "connect_to_kernel"
    /\ Len(trace) = 2
    /\ trace[1].eff = "stop_channels"
    /\ trace[2].eff = "start_channels"
    /\ trace[1].id # trace[2].id
    /\ openHandles = {trace[2].id}

ClosedReports == {"ShutdownGraceful", "ConnectionsClosed"}

\* C5: shutdown_kernel on a connection whose tracked process has already
\* exited returns a "closed" report and empties both slots of the session.
C5_ShutdownAfterExitClearsSession ==
    [][ (/\ lastOp'.op = "shutdown_kernel"
         /\ kernel_client # None
         /\ kernel_process # None
         /\ kernel_process \notin alive)
        => (/\ ret'.kind \in ClosedReports
            /\ kernel_client' = None
            /\ kernel_process' = None) ]_vars

\* C9: interrupt_kernel on a connection on Windows returns "unsupported",
\* sends neither a protocol interrupt nor a signal, and changes no slot.
C9_WindowsInterruptUnsupported ==
    [][ (lastOp'.op = "interrupt_kernel" /\ IS_WINDOWS /\ kernel_client # None)
        => (/\ ret'.kind = "InterruptUnsupported"
            /\ trace' = <<>>
            /\ UNCHANGED session) ]_vars

\* on Windows, with a connection and a live tracked process, "unsupported"
\* was returned
C9_Witness ==
    /\ lastOp.op = "interrupt_kernel"
    /\ IS_WINDOWS
    /\ ret.kind = "InterruptUnsupported"
    /\ kernel_client # None
    /\ kernel_process \in alive

\* C10: start_kernel with dry_run spawns nothing and changes no slot, from
\* any session state; given a descriptor file that exists it returns the
\* command line of the launch.
C10_DryRunFrame ==
    [][ (lastOp'.op = "start_kernel" /\ lastOp'.dry_run)
        => (/\ ~Has(trace', {"spawn"})
            /\ UNCHANGED session
            /\ ret'.kind \in {"WouldRun", "NotFound"}
            /\ ret'.kind = "WouldRun"
                 => ret'.body = command_line(IS_WINDOWS, lastOp'.file)) ]_vars

\* a dry run returned the command line while a connection was open and a
\* live process was tracked
C10_Witness ==
    /\ lastOp.op = "start_kernel"
    /\ lastOp.dry_run
    /\ ret.kind = "WouldRun"
    /\ kernel_client \in openHandles
    /\ kernel_process \in alive


\* ---------------------------------------------------------------- properties of every operation
PublicOps == {"start_kernel", "connect_to_kernel", "execute_code", "kernel_status",
              "disconnect_kernel", "shutdown_kernel", "interrupt_kernel"}

\* the status strings an operation has, by kind
StatusOf(op) ==
    IF op = "start_kernel"
    THEN {"NotFound", "WouldRun", "StartFailed", "AlreadyRunning", "Started",
          "LaunchFailure"}
    ELSE IF op = "connect_to_kernel"
    THEN {"NotFound", "ConnectFailed", "ConnectError", "Connected"}
    ELSE IF op = "execute_code"
    THEN {"NotConnected", "ExecutionFailure", "Output", "NoOutput", "ExecError"}
    ELSE IF op = "kernel_status"
    THEN {"NotConnected", "ConnectedNoDetails", "Connected"}
    ELSE IF op = "disconnect_kernel"
    THEN {"Disconnected", "DisconnectError"}
    ELSE IF op = "shutdown_kernel"
    THEN {"NotConnected", "ShutdownGraceful", "ShutdownForceful",
          "TerminationFailedClosed", "ConnectionsClosed"}
    ELSE IF op = "interrupt_kernel"
    THEN {"NotConnected", "InterruptUnsupported", "InterruptSent",
          "OSInterruptFailed", "SignalSent", "NoInterruptMethod"}
    ELSE {}

\* C11: every call of a public operation that has ended returned one of the
\* operation's status strings, whichever of its internal steps failed; no
\* exception of a step reached the caller, nor the caller of the
\* connect_to_kernel that start_kernel runs.
C11_EveryOperationReturnsStatus ==
    (pc = "idle" /\ lastOp.op \in PublicOps)
        => /\ ret.kind \in StatusOf(lastOp.op)
           /\ ret.kind \in {"Started", "AlreadyRunning"}
                => ret.body[1] \in StatusOf("connect_to_kernel")

\* shutdown_kernel returned a status although the protocol request, the
\* kill of the process and the closing of the channels all raised
C11_Witness ==
    /\ lastOp.op = "shutdown_kernel"
    /\ Has(trace, {"shutdown_request_failed"})
    /\ Has(trace, {"kill_failed"})
    /\ Has(trace, {"stop_channels_failed"})
    /\ ret.kind = "TerminationFailedClosed"

\* C12: when the worker spawned by start_kernel has exited within the grace
\* period with an address-in-use or binding error on its stderr, start_kernel
\* returns the report of the fallback to connect_to_kernel, not a launch
\* failure, and a kernel_status that follows reports connected.
C12_AddressInUseFallsBackToConnect ==
    [][ (lastOp.op = "start_kernel" /\ Has(trace, {"exited_address_in_use"}))
        => (/\ ret.kind = "AlreadyRunning"
            /\ lastOp'.op = "kernel_status"
                 => ret'.kind \in {"Connected", "ConnectedNoDetails"}) ]_vars

\* C13: every disconnect_kernel call closes the stored client, if there is
\* one, leaves the connection slot empty and returns the success report; a
\* call with an empty slot (so every second call) changes no state and
\* closes nothing; no call changes the process slot.
C13_DisconnectIdempotent ==
    [][ OpStep("disconnect_kernel")
        => (/\ ret'.kind = "Disconnected"
            /\ kernel_client' = None
            /\ openHandles' = openHandles \ {kernel_client}
            /\ kernel_process' = kernel_process
            /\ kernel_client = None => (UNCHANGED session /\ trace' = <<>>)) ]_vars


\* ---------------------------------------------------------------- order of the fallbacks
ProtocolShutdown == {"shutdown_request", "shutdown_request_failed"}
TerminateSignals == {"terminate", "terminate_failed"}
KillSignals == {"kill", "kill_failed"}

\* C14: in every shutdown_kernel call on a connection the protocol shutdown
\* request is the first effect and is made once; a termination signal is
\* sent only after that request failed, and only to the tracked process
\* while it is alive; a kill is sent only directly after a termination
\* signal that was sent and a wait that expired; after a termination and a
\* wait that ended in time no kill is sent; after a protocol request that
\* succeeded no process is signalled.
C14_ShutdownFallbackOrder ==
    [][ (OpStep("shutdown_kernel") /\ kernel_client # None)
        => LET t == trace'
           IN  /\ t # <<>>
               /\ t[1].eff \in ProtocolShutdown
               /\ \A i \in 2..Len(t) : t[i].eff \notin ProtocolShutdown
               /\ \A i \in 1..Len(t) :
                    t[i].eff \in TerminateSignals
                      => /\ i = 2
                         /\ t[1].eff = "shutdown_request_failed"
                         /\ t[i].id = kernel_process
                         /\ kernel_process # None
                         /\ kernel_process \in alive
               /\ \A i \in 1..Len(t) :
                    t[i].eff \in KillSignals
                      => /\ i = 4
                         /\ t[2].eff = "terminate"
                         /\ t[3].eff = "wait_timeout"
                         /\ t[i].id = kernel_process
               /\ (Len(t) >= 3 /\ t[3].eff = "wait") => ~Has(t, KillSignals)
               /\ t[1].eff = "shutdown_request"
                    => ~Has(t, TerminateSignals \cup KillSignals) ]_vars

\* the protocol request failed, the termination signal was sent, the wait
\* expired and the process was killed
C14_Witness ==
    /\ lastOp.op = "shutdown_kernel"
    /\ ret.kind = "ShutdownForceful"
    /\ Len(trace) >= 5
    /\ trace[1].eff = "shutdown_request_failed"
    /\ trace[2].eff = "terminate"
    /\ trace[3].eff = "wait_timeout"
    /\ trace[4].eff = "kill"
    /\ trace[5].eff = "wait"
    /\ kernel_process \notin alive

InterruptRequests == {"interrupt_request", "interrupt_request_failed"}
InterruptSignals == {"SIGINT", "SIGINT_failed"}

\* C15: where signals are supported, an interrupt_kernel call without a
\* connection returns NotConnected and sends nothing; a call on a
\* connection makes the protocol interrupt its first effect and, when that
\* succeeded, its only effect; a signal is sent only after the protocol
\* interrupt failed and only to the tracked process while it is alive; when
\* the protocol interrupt failed and no tracked process is alive, the call
\* sends no signal and returns "no interrupt method available".
\* (interrupt_kernel assigns no slot, so the session during the call is the
\* session after it.)
C15_InterruptFallbackOrder ==
    (lastOp.op = "interrupt_kernel" /\ ~IS_WINDOWS)
        => IF kernel_client = None
           THEN ret.kind = "NotConnected" /\ trace = <<>>
           ELSE /\ trace # <<>>
                /\ trace[1].eff \in InterruptRequests
                /\ \A i \in 2..Len(trace) : trace[i].eff \notin InterruptRequests
                /\ trace[1].eff = "interrupt_request"
                     => (Len(trace) = 1 /\ ret.kind = "InterruptSent")
                /\ \A i \in 1..Len(trace) :
                     trace[i].eff \in InterruptSignals
                       => /\ i = 2
                          /\ trace[1].eff = "interrupt_request_failed"
                          /\ trace[i].id = kernel_process
                          /\ kernel_process # None
                          /\ kernel_process \in alive
                /\ (trace[1].eff = "interrupt_request_failed"
                    /\ ~(kernel_process # None /\ kernel_process \in alive))
                     => (Len(trace) = 1 /\ ret.kind = "NoInterruptMethod")

\* the protocol interrupt failed and the signal went to the live process
C15_Witness ==
    /\ lastOp.op = "interrupt_kernel"
    /\ ~IS_WINDOWS
    /\ ret.kind = "SignalSent"
    /\ trace[1].eff = "interrupt_request_failed"
    /\ trace[2].eff = "SIGINT"
    /\ trace[2].id = kernel_process

\* no tracked process was alive and no interrupt method was left
C15_WitnessNoMethod ==
    /\ lastOp.op = "interrupt_kernel"
    /\ ret.kind = "NoInterruptMethod"
    /\ kernel_process # None
    /\ kernel_process \notin alive


\* ---------------------------------------------------------------- the drain loop
\* the fragments of a sequence of messages, in the order of the messages
RECURSIVE AllFragments(_)
AllFragments(ms) ==
    IF ms = <<>> THEN <<>> ELSE fragments(Head(ms)) \o AllFragments(Tail(ms))

\* this step is a read of the loop that took the head of the channel
Reads == pc = "drain" /\ iopub # <<>> /\ iopub' = Tail(iopub)

\* this step ends the loop
Stops == pc = "drain" /\ pc' = "idle"

OwnIdle(m) ==
    m.parent = msg_id /\ m.msg_type = "status" /\ m.execution_state = "idle"

\* C16 as stated: the loop stops when it reads the idle status of its own
\* request or when a read finds no message, and at nothing else; a message
\* of another request, idle status included, neither stops the loop nor
\* adds to the collection; the report is the collected fragments of the
\* matching messages read, joined in the order read, whenever there is one.
C16_ReportIsFragmentsUntilIdleOrTimeout ==
    [][ /\ (Reads /\ OwnIdle(Head(iopub))) => Stops
        /\ (Reads /\ Head(iopub).parent # msg_id)
             => (~Stops /\ output_parts' = output_parts /\ seen' = seen)
        /\ Stops => \/ Reads /\ OwnIdle(Head(iopub))
                    \/ iopub = <<>> /\ iopub' = iopub
        /\ (Stops /\ AllFragments(seen') # <<>>)
             => ret'.body = Join(<<"\n">>, AllFragments(seen')) ]_vars

\* C16 amended: the loop stops when it reads the idle status of its own
\* request or when a read times out or raises, and at nothing else; a
\* message of another request, idle status included, neither stops the
\* loop nor adds to the collection; when the reply read by the call is not
\* an error, the report is the collected fragments of the matching
\* messages read, joined in the order read, if there is one, and the "no
\* output" text if there is none; when the reply is an error the report is
\* the reply's error summary.
C16_ReportIsFragmentsUnlessReplyError ==
    [][ /\ (Reads /\ OwnIdle(Head(iopub))) => Stops
        /\ (Reads /\ Head(iopub).parent # msg_id)
             => (~Stops /\ output_parts' = output_parts /\ seen' = seen)
        /\ Stops => \/ Reads /\ OwnIdle(Head(iopub))
                    \/ iopub' = iopub
        /\ (Stops /\ reply.status # "error")
             => ret'.body = IF AllFragments(seen') # <<>>
                            THEN Join(<<"\n">>, AllFragments(seen'))
                            ELSE NoOutputText
        /\ (Stops /\ reply.status = "error")
             => ret'.body = error_summary(reply) ]_vars

\* the loop discarded a message of another request, then read two matching
\* messages, the second being the idle status, and returned the fragment of
\* the first
C16_Witness ==
    /\ Returned
    /\ skipped
    /\ Len(seen) = 2
    /\ OwnIdle(seen[2])
    /\ ret.kind = "Output"
    /\ ret.body = Join(<<"\n">>, AllFragments(seen))


\* ---------------------------------------------------------------- reply correlation
\* C17: the reply from which a call takes its verdict is the reply to the
\* request the call submitted: while the call collects, and when it has
\* returned a report built from the reply, the parent id of the reply it
\* read is its own request id, also when the reply to an earlier request,
\* whose call gave up waiting, arrived in between.
C17_VerdictFromOwnReply ==
    (pc = "drain" \/ Returned) => reply.parent = msg_id


\* ---------------------------------------------------------------- frame of execute_code
\* C18: no step of an execute_code call changes the connection slot, the
\* process slot or the set of open clients, whether the request could not
\* be sent, the reply wait timed out, or the call collected and returned;
\* a call without a connection returns NotConnected, sends no request and
\* opens no connection.
C18_ExecuteLeavesSession ==
    [][ OpStep("execute_code")
        => (/\ UNCHANGED <<kernel_client, kernel_process, openHandles>>
            /\ kernel_client = None
                 => (/\ ret'.kind = "NotConnected"
                     /\ trace' = <<>>
                     /\ UNCHANGED channels)) ]_vars

\* the reply wait of a call on an open connection, with a tracked process,
\* timed out
C18_Witness ==
    /\ lastOp.op = "execute_code"
    /\ ret.kind = "ExecutionFailure"
    /\ Has(trace, {"execute_request"})
    /\ kernel_client \in openHandles
    /\ kernel_process # None

\* a call without a connection returned NotConnected
C18_WitnessNotConnected ==
    /\ lastOp.op = "execute_code"
    /\ ret.kind = "NotConnected"
    /\ kernel_client = None
    /\ kernel_process # None


\* ---------------------------------------------------------------- failed reconnect
\* C19: a connect_to_kernel call made while a connection is open that
\* fails because the descriptor file is absent or cannot be parsed closes
\* nothing and stores nothing: the slots, the open clients and the channels
\* of the stored client are after the call what they were before it, so
\* the stored client is still the open one that execute_code uses.
C19_FailedReconnectKeepsConnection ==
    [][ (/\ OpStep("connect_to_kernel")
         /\ kernel_client \in openHandles
         /\ \/ ret'.kind = "NotFound"
            \/ ret' = Report("ConnectFailed", <<"malformed">>))
        => (/\ UNCHANGED session
            /\ UNCHANGED channels
            /\ trace' = <<>>
            /\ kernel_client' \in openHandles') ]_vars

\* connect_to_kernel failed on an unparsable descriptor while a connection
\* was open, and the connection is still stored and open
C19_Witness ==
    /\ lastOp.op = "connect_to_kernel"
    /\ ret = Report("ConnectFailed", <<"malformed">>)
    /\ kernel_client \in openHandles

====
